---- MODULE Spec2Model ----
(***************************************************************************)
(* csvdrop: the merge function (netlify/functions/process-csv.js) and the  *)
(* front-end table editor (the browser script).                            *)
(*                                                                         *)
(* A cell value is a string, modelled as a sequence of one-character       *)
(* strings.  A row record is a JavaScript object with string keys,         *)
(* modelled as a sequence of <<column, value>> pairs in the object's own   *)
(* key order (columns distinct).                                           *)
(***************************************************************************)
EXTENDS Integers, Sequences, FiniteSets, TLC

\* ------------------------------------------------------------------ bounds
MaxStrLen == 1
MaxRows == 2
MaxFiles == 2

Chars == {" ", "x"}
Columns == {"a", "b"}

SeqsUpTo(S, n) == UNION {[1..k -> S] : k \in 0..n}

Values == SeqsUpTo(Chars, MaxStrLen)

\* Headers of one or two distinct columns, in either order.
Headers ==
    {<<c>> : c \in Columns} \cup
    {<<c, d>> : <<c, d>> \in {p \in Columns \X Columns : p[1] # p[2]}}

\* ------------------------------------------------------- row records (JS)
Keys(row) == [i \in 1..Len(row) |-> row[i][1]]

ObjectValues(row) == [i \in 1..Len(row) |-> row[i][2]]

HasKey(row, col) == \E i \in 1..Len(row) : row[i][1] = col

\* What a read of a missing property shows when used as text.
Undefined == <<"undefined">>

\* row[col]
GetCell(row, col) ==
    IF HasKey(row, col)
    THEN row[CHOOSE i \in 1..Len(row) : row[i][1] = col][2]
    ELSE Undefined

\* row[col] = value: overwrites the property, or adds it after the others
SetCellAppend(row, col, value) == Append(row, <<col, value>>)

SetCell(row, col, value) ==
    IF HasKey(row, col)
    THEN [i \in 1..Len(row) |->
             IF row[i][1] = col THEN <<col, value>> ELSE row[i]]
    ELSE Append(row, <<col, value>>)

\* The object Papa Parse builds for one line under a header: the first
\* n fields of the header, each with its value.
MakeRow(fields, vals) == [i \in 1..Len(vals) |-> <<fields[i], vals[i]>>]

\* All rows of exactly n fields under a header.
RowsOf(fields, n) ==
    {MakeRow(fields, vals) : vals \in [1..n -> Values]}

\* ------------------------------------------------------------ String.trim
IsSpace(ch) == ch = " "

RECURSIVE TrimLeft(_)
TrimLeft(s) ==
    IF s # <<>> /\ IsSpace(Head(s)) THEN TrimLeft(Tail(s)) ELSE s

RECURSIVE TrimRight(_)
TrimRight(s) ==
    IF s # <<>> /\ IsSpace(s[Len(s)])
    THEN TrimRight(SubSeq(s, 1, Len(s) - 1))
    ELSE s

TrimNone(s) == s

Trim(s) == TrimRight(TrimLeft(s))

\* ---------------------------------------------------------- JSON.stringify
\* The text of an object whose values are strings, as a sequence of tokens:
\* {"k1":"v1","k2":"v2"} with the keys in the object's own order.
RECURSIVE StringifyPairs(_, _)
StringifyPairs(row, i) ==
    IF i > Len(row) THEN <<>>
    ELSE (IF i > 1 THEN <<",">> ELSE <<>>)
         \o <<"\"", row[i][1], "\"", ":", "\"">> \o row[i][2] \o <<"\"">>
         \o StringifyPairs(row, i + 1)

JSONStringify(row) == <<"{">> \o StringifyPairs(row, 1) \o <<"}">>

\* ================================================================== merge
\* An uploaded file: whether it can be read, and its CSV text as a header
\* line and data lines (each line a sequence of 1..Len(fields) values; a
\* line shorter than the header is a malformed line).
Lines(fields) ==
    SeqsUpTo(UNION {[1..n -> Values] : n \in 1..Len(fields)}, MaxRows)

UnreadableFile == [readable |-> FALSE, fields |-> <<>>, lines |-> <<>>]

Files ==
    {UnreadableFile} \cup
    UNION {{[readable |-> TRUE, fields |-> h, lines |-> ls] : ls \in Lines(h)}
           : h \in Headers}

\* Papa.parse(content, {header: true, skipEmptyLines: true}): one object per
\* data line keyed by the header; a line with too few fields is reported in
\* results.errors and still yields an object (with the fields it has).
PapaParse(content) ==
    [data   |-> [i \in 1..Len(content.lines) |->
                    MakeRow(content.fields, content.lines[i])],
     errors |-> {i \in 1..Len(content.lines) :
                    Len(content.lines[i]) < Len(content.fields)}]

\* The requests: a POST with its files, a POST whose form cannot be parsed,
\* and a request with another verb.
Events ==
    {[httpMethod |-> "POST", formErr |-> FALSE, files |-> fs]
        : fs \in SeqsUpTo(Files, MaxFiles)} \cup
    {[httpMethod |-> "POST", formErr |-> TRUE, files |-> <<>>],
     [httpMethod |-> "GET", formErr |-> FALSE, files |-> <<>>]}

NoEvent == [httpMethod |-> "none", formErr |-> FALSE, files |-> <<>>]

NoResponse == [statusCode |-> 0, body |-> "", rows |-> <<>>]

ErrorResponse(code, msg) == [statusCode |-> code, body |-> msg, rows |-> <<>>]

\* The function's invocation, then what the process that runs the function
\* holds, then the page's state.  lastAllData and lastSeen are the array
\* and the Set the most recent invocation of this process created for
\* allData and seen; prevStatus and seenBefore are history variables, the
\* status code of the response before the current one and whether a row
\* parsed from the current request has a key that the seen Set of an
\* earlier invocation held.  The page: csvData, the rendered
\* table and its header checkboxes, the parses in flight, the alert shown
\* by the last handler and the download button.  lastWritten, snap and
\* before are history variables: the value last written to (or loaded
\* into) each slot, the store as it was when a column was enabled with no
\* input event since, and that snapshot right after the column is disabled;
\* replaced tells that the last step was a load over a table with a column
\* being edited, and latest is the file selected most recently (a sequence
\* of at most one file).  The combine form: the number of files chosen in
\* combineInput, the button's disabled flag and label, the promise chains
\* of the merge requests sent and not yet finished, the last alert shown
\* by the combine handlers and the name of the last file downloaded.
VARIABLES event, response, lastAllData, lastSeen, prevStatus, seenBefore,
          csvData, table, checkbox, pending, alert, downloadVisible,
          lastWritten, snap, before, replaced, latest,
          combineFiles, combineDisabled, combineLabel, chains, combineAlert,
          downloadName

mergeVars == <<event, response, lastAllData, lastSeen, prevStatus,
               seenBefore>>

editVars == <<csvData, table, checkbox, pending, alert, downloadVisible,
              lastWritten, snap, before, replaced, latest>>

combineVars == <<combineFiles, combineDisabled, combineLabel, chains,
                 combineAlert, downloadName>>

vars == <<mergeVars, editVars, combineVars>>

\* let allData = []
NewArray == <<>>

\* fileArray.forEach: allData = allData.concat(results.data)
RECURSIVE ConcatData(_, _)
ConcatData(fileArray, i) ==
    IF i > Len(fileArray) THEN <<>>
    ELSE PapaParse(fileArray[i]).data \o ConcatData(fileArray, i + 1)

\* Object.values(row).some(v => v !== null && v !== undefined &&
\*                              String(v).trim() !== '')
HasContent(row) ==
    \E i \in 1..Len(row) : Trim(ObjectValues(row)[i]) # <<>>

FilterBlank(allData) == SelectSeq(allData, HasContent)

\* allData.forEach with the seen set
RECURSIVE DedupKeepLast(_, _, _)
DedupKeepLast(allData, i, seen) ==
    IF i < 1 THEN <<>>
    ELSE LET key == JSONStringify(allData[i])
         IN IF key \in seen
            THEN DedupKeepLast(allData, i - 1, seen)
            ELSE DedupKeepLast(allData, i - 1, seen \cup {key})
                 \o <<allData[i]>>

RECURSIVE Dedup(_, _, _)
Dedup(allData, i, seen) ==
    IF i > Len(allData) THEN <<>>
    ELSE LET key == JSONStringify(allData[i])
         IN IF key \in seen
            THEN Dedup(allData, i + 1, seen)
            ELSE <<allData[i]>> \o Dedup(allData, i + 1, seen \cup {key})

UniqueDataLast(allData) == DedupKeepLast(allData, Len(allData), {})

\* A seen Set that lives on from one invocation to the next.
KeptSet == lastSeen

\* const seen = new Set()
NewSet == {}

UniqueData(allData) == Dedup(allData, 1, NewSet)

\* json2csv's Parser.parse without the "fields" option throws on an empty
\* array ('Data should not be empty or the "fields" option should be
\* included').
ParserNeverThrows(data) == FALSE

ParserThrows(data) == Len(data) = 0

\* fs.readFileSync throws on a file that cannot be read
ReadThrows(fileArray) == \E i \in 1..Len(fileArray) : ~fileArray[i].readable

NoFilesNever(fileArray) == FALSE

\* if (!fileArray.length)
NoFiles(fileArray) == Len(fileArray) = 0

\* try { ... } catch (error) { ... }
ProcessFiles(fileArray) ==
    IF ReadThrows(fileArray)
    THEN ErrorResponse(500, "Server error processing CSV files")
    ELSE LET uniqueData ==
                 UniqueData(FilterBlank(NewArray \o ConcatData(fileArray, 1)))
         IN IF ParserThrows(uniqueData)
            THEN ErrorResponse(500, "Server error processing CSV files")
            ELSE [statusCode |-> 200, body |-> "text/csv", rows |-> uniqueData]

\* exports.handler
Handler(ev) ==
    IF ev.httpMethod # "POST"
    THEN ErrorResponse(405, "Method Not Allowed")
    ELSE IF ev.formErr
    THEN ErrorResponse(500, "Error parsing form data")
    ELSE IF NoFiles(ev.files)
    THEN ErrorResponse(400, "No files uploaded")
    ELSE ProcessFiles(ev.files)

\* The request got as far as the callback's try block (line 40).
ReachesTry(ev) == ev.httpMethod = "POST" /\ ~ev.formErr /\ ~NoFiles(ev.files)

\* The files read before readFileSync throws, all of them if it does not.
ReadPrefix(fileArray) ==
    SubSeq(fileArray, 1,
           Cardinality({i \in 1..Len(fileArray) :
                           \A j \in 1..i : fileArray[j].readable}))

\* allData and seen as the invocation leaves them: an invocation that does
\* not get to create one leaves the one the process held.
AllDataAfter(ev) ==
    IF ~ReachesTry(ev) THEN lastAllData
    ELSE IF ReadThrows(ev.files)
    THEN NewArray \o ConcatData(ReadPrefix(ev.files), 1)
    ELSE FilterBlank(NewArray \o ConcatData(ev.files, 1))

SeenAfter(ev) ==
    IF ReachesTry(ev) /\ ~ReadThrows(ev.files)
    THEN LET rows == FilterBlank(NewArray \o ConcatData(ev.files, 1))
         IN NewSet \cup {JSONStringify(rows[i]) : i \in 1..Len(rows)}
    ELSE lastSeen

\* exports.handler runs on the request and the response is resolved.
Serve(ev) ==
    /\ event' = ev
    /\ response' = Handler(ev)
    /\ lastAllData' = AllDataAfter(ev)
    /\ lastSeen' = SeenAfter(ev)
    /\ prevStatus' = response.statusCode
    /\ seenBefore' = \E i \in 1..Len(ev.files) :
                         \E r \in 1..Len(PapaParse(ev.files[i]).data) :
                            JSONStringify(PapaParse(ev.files[i]).data[r])
                               \in lastSeen

\* One invocation of the function on a fresh process: the request arrives
\* and is answered.
Invoke ==
    /\ event = NoEvent
    /\ \E ev \in Events : Serve(ev)
    /\ UNCHANGED <<editVars, combineVars>>

\* The response has been delivered and the process is shut down; the next
\* request starts a fresh one.
Return ==
    /\ event # NoEvent
    /\ event' = NoEvent
    /\ response' = NoResponse
    /\ lastAllData' = <<>>
    /\ lastSeen' = {}
    /\ prevStatus' = 0
    /\ seenBefore' = FALSE
    /\ UNCHANGED <<editVars, combineVars>>

MergeNext == Invoke \/ Return

\* The requests of a run of invocations on one process.
MaxSessionFiles == 1

SessionEvents == {ev \in Events : Len(ev.files) <= MaxSessionFiles}

\* One more invocation on a process that has served invocations before
\* (a warm start): whatever the process holds is still there.
InvokeWarm ==
    /\ \E ev \in SessionEvents : Serve(ev)
    /\ UNCHANGED <<editVars, combineVars>>

SessionNext == InvokeWarm

\* ============================================================== front end
MaxPending == 2

\* The files offered to the file input: the two headers below, data lines
\* holding LoadValues (short lines included), and a file that cannot be read.
TableHeaders == {<<"a", "b">>, <<"b">>}

LoadValues == {<<"x">>}

TableFiles ==
    {f \in Files :
        /\ f.readable => f.fields \in TableHeaders
        /\ \A i \in 1..Len(f.lines) : \A k \in 1..Len(f.lines[i]) :
              f.lines[i][k] \in LoadValues}

Range(seq) == {seq[i] : i \in 1..Len(seq)}

RemoveAt(seq, i) == SubSeq(seq, 1, i - 1) \o SubSeq(seq, i + 1, Len(seq))

NoCheckboxes == [c \in {} |-> FALSE]

NoSnaps == [c \in Columns |-> <<>>]

\* buildTable: nothing for an empty csvData; else one unchecked checkbox per
\* key of the first row and one text cell per key of every row.
BuildCheckboxesChecked(data) ==
    IF Len(data) = 0 THEN NoCheckboxes
    ELSE [c \in Range(Keys(data[1])) |-> TRUE]

BuildCheckboxes(data) ==
    IF Len(data) = 0 THEN NoCheckboxes
    ELSE [c \in Range(Keys(data[1])) |-> FALSE]

BuildCellsEditable(data) ==
    [i \in 1..Len(data) |->
        [k \in 1..Len(data[i]) |->
            [column   |-> data[i][k][1],
             rowIndex |-> i - 1,
             input    |-> TRUE,
             text     |-> data[i][k][2]]]]

BuildCells(data) ==
    [i \in 1..Len(data) |->
        [k \in 1..Len(data[i]) |->
            [column   |-> data[i][k][1],
             rowIndex |-> i - 1,
             input    |-> FALSE,
             text     |-> data[i][k][2]]]]

\* tableContainer.querySelectorAll(`td[data-column='${col}']`)
AllCells(tbl, col) ==
    {<<i, k>> \in (1..Len(tbl)) \X (1..Cardinality(Columns)) : k <= Len(tbl[i])}

ColumnCells(tbl, col) ==
    {<<i, k>> \in (1..Len(tbl)) \X (1..Cardinality(Columns)) :
        k <= Len(tbl[i]) /\ tbl[i][k].column = col}

\* toggleModification, with checkbox.checked already flipped by the browser:
\* every cell of the column becomes an input seeded with csvData's value, or
\* goes back to text showing csvData's value.  csvData is not written.
ToggleModificationCommitText(col, isChecked, tbl, data) ==
    LET cells == ColumnCells(tbl, col)
    IN [table |->
           [i \in 1..Len(tbl) |->
               [k \in 1..Len(tbl[i]) |->
                   IF <<i, k>> \in cells
                   THEN [tbl[i][k] EXCEPT
                            !.input = isChecked,
                            !.text = IF isChecked
                                     THEN GetCell(data[tbl[i][k].rowIndex + 1], col)
                                     ELSE <<>>]
                   ELSE tbl[i][k]]],
        csvData |->
           IF isChecked THEN data
           ELSE [i \in 1..Len(data) |->
                    IF \E k \in 1..Len(tbl[i]) : <<i, k>> \in cells
                    THEN SetCell(data[i], col, <<>>)
                    ELSE data[i]]]

ToggleModificationNoSeed(col, isChecked, tbl, data) ==
    LET cells == ColumnCells(tbl, col)
    IN [table |->
           [i \in 1..Len(tbl) |->
               [k \in 1..Len(tbl[i]) |->
                   IF <<i, k>> \in cells
                   THEN [tbl[i][k] EXCEPT
                            !.input = isChecked,
                            !.text = IF isChecked THEN <<>>
                                     ELSE GetCell(data[tbl[i][k].rowIndex + 1], col)]
                   ELSE tbl[i][k]]],
        csvData |-> data]

ToggleModification(col, isChecked, tbl, data) ==
    LET cells == ColumnCells(tbl, col)
    IN [table |->
           [i \in 1..Len(tbl) |->
               [k \in 1..Len(tbl[i]) |->
                   IF <<i, k>> \in cells
                   THEN [tbl[i][k] EXCEPT
                            !.input = isChecked,
                            !.text = GetCell(data[tbl[i][k].rowIndex + 1], col)]
                   ELSE tbl[i][k]]],
        csvData |-> data]

\* The input listener: csvData[ri][column] = this.value
InputListenerFirstRow(data, ri, column, value) ==
    [data EXCEPT ![1] = SetCell(data[1], column, value)]

InputListener(data, ri, column, value) ==
    [data EXCEPT ![ri + 1] = SetCell(data[ri + 1], column, value)]

\* No invocation yet; the page as the DOMContentLoaded listener leaves it.
Init ==
    /\ event = NoEvent
    /\ response = NoResponse
    /\ lastAllData = <<>>
    /\ lastSeen = {}
    /\ prevStatus = 0
    /\ seenBefore = FALSE
    /\ csvData = <<>>
    /\ table = <<>>
    /\ checkbox = NoCheckboxes
    /\ pending = <<>>
    /\ alert = ""
    /\ downloadVisible = FALSE
    /\ lastWritten = <<>>
    /\ snap = NoSnaps
    /\ before = <<>>
    /\ replaced = FALSE
    /\ latest = <<>>
    /\ combineFiles = 0
    /\ combineDisabled = FALSE
    /\ combineLabel = "Combine and Download"
    /\ chains = <<>>
    /\ combineAlert = ""
    /\ downloadName = ""

\* csvInput change: a file is selected and Papa.parse starts reading it.
SelectFile ==
    /\ Len(pending) < MaxPending
    /\ \E f \in TableFiles :
          /\ pending' = Append(pending, f)
          /\ latest' = <<f>>
    /\ alert' = ""
    /\ before' = <<>>
    /\ replaced' = FALSE
    /\ UNCHANGED <<csvData, table, checkbox, downloadVisible, lastWritten, snap>>
    /\ UNCHANGED <<mergeVars, combineVars>>

\* complete(results): the file was read; results.errors is not looked at.
Complete(i) ==
    /\ pending[i].readable
    /\ pending' = RemoveAt(pending, i)
    /\ LET results == PapaParse(pending[i])
       IN /\ csvData' = results.data
          /\ table' = BuildCells(results.data)
          /\ checkbox' = BuildCheckboxes(results.data)
          /\ lastWritten' = results.data
    /\ downloadVisible' = TRUE
    /\ alert' = ""
    /\ snap' = NoSnaps
    /\ before' = <<>>
    /\ replaced' = \E c \in DOMAIN checkbox : checkbox[c]
    /\ UNCHANGED latest
    /\ UNCHANGED <<mergeVars, combineVars>>

\* error(err): the file could not be read.
Error(i) ==
    /\ ~pending[i].readable
    /\ pending' = RemoveAt(pending, i)
    /\ alert' = "Error parsing CSV file"
    /\ before' = <<>>
    /\ replaced' = FALSE
    /\ UNCHANGED latest
    /\ UNCHANGED <<csvData, table, checkbox, downloadVisible, lastWritten, snap>>
    /\ UNCHANGED <<mergeVars, combineVars>>

\* change on a header checkbox
Toggle(col) ==
    /\ LET isChecked == ~checkbox[col]
           r == ToggleModification(col, isChecked, table, csvData)
       IN /\ checkbox' = [checkbox EXCEPT ![col] = isChecked]
          /\ table' = r.table
          /\ csvData' = r.csvData
          /\ snap' = [snap EXCEPT ![col] = IF isChecked THEN <<csvData>> ELSE <<>>]
          /\ before' = IF isChecked THEN <<>> ELSE snap[col]
    /\ alert' = ""
    /\ replaced' = FALSE
    /\ UNCHANGED <<pending, downloadVisible, lastWritten, latest>>
    /\ UNCHANGED <<mergeVars, combineVars>>

\* input on the input element of the k-th cell of the i-th table row: the
\* user changes its value to v and the listener runs.
Input(i, k, v) ==
    /\ table[i][k].input
    /\ v # table[i][k].text
    /\ table' = [table EXCEPT ![i][k].text = v]
    /\ csvData' = InputListener(csvData, table[i][k].rowIndex, table[i][k].column, v)
    /\ lastWritten' = [lastWritten EXCEPT
                          ![i] = SetCell(lastWritten[i], Keys(lastWritten[i])[k], v)]
    /\ snap' = NoSnaps
    /\ before' = <<>>
    /\ alert' = ""
    /\ replaced' = FALSE
    /\ UNCHANGED <<checkbox, pending, downloadVisible, latest>>
    /\ UNCHANGED <<mergeVars, combineVars>>

EditNext ==
    \/ SelectFile
    \/ \E i \in 1..Len(pending) : Complete(i)
    \/ \E i \in 1..Len(pending) : Error(i)
    \/ \E col \in DOMAIN checkbox : Toggle(col)
    \/ \E i \in 1..Len(table) : \E k \in 1..Len(table[i]) : \E v \in Values :
          Input(i, k, v)

\* ------------------------------------------------------------ combine form
MaxSelected == 3
MaxChains == 2

\* The user chooses n files in combineInput (combineInput.files).
ChooseFiles ==
    /\ \E n \in 0..MaxSelected :
          /\ n # combineFiles
          /\ combineFiles' = n
    /\ UNCHANGED <<combineDisabled, combineLabel, chains, combineAlert,
                   downloadName>>
    /\ UNCHANGED <<mergeVars, editVars>>

\* A button that is not disabled while its request runs.
LeftEnabled == FALSE

\* combineButton.disabled = true
DisabledOnSend == TRUE

\* click on combineButton (a disabled button dispatches no click): fewer
\* than two files are refused with an alert; else the button is disabled,
\* relabelled, and the request is sent.
Click ==
    /\ ~combineDisabled
    /\ Len(chains) < MaxChains
    /\ IF combineFiles < 2
       THEN /\ combineAlert' = "Please select at least two CSV files to combine."
            /\ UNCHANGED <<combineDisabled, combineLabel, chains>>
       ELSE /\ combineDisabled' = DisabledOnSend
            /\ combineLabel' = "Combining..."
            /\ chains' = Append(chains, [stage |-> "fetch", message |-> ""])
            /\ UNCHANGED combineAlert
    /\ UNCHANGED <<combineFiles, downloadName>>
    /\ UNCHANGED <<mergeVars, editVars>>

\* The fetch promise of chain c settles: resolved with an OK response,
\* resolved with a non-OK response, or rejected (transport failure).
FetchSettles(c) ==
    /\ chains[c].stage = "fetch"
    /\ \E outcome \in {"ok", "notOk", "rejected"} :
          chains' = [chains EXCEPT ![c] =
                        IF outcome = "rejected"
                        THEN [stage |-> "catch", message |-> "Failed to fetch"]
                        ELSE [stage |-> outcome, message |-> ""]]
    /\ UNCHANGED <<combineFiles, combineDisabled, combineLabel, combineAlert,
                   downloadName>>
    /\ UNCHANGED <<mergeVars, editVars>>

\* .then(response => ...): throws on a non-OK response, else starts reading
\* the body as a blob.
ThenResponse(c) ==
    /\ chains[c].stage \in {"ok", "notOk"}
    /\ chains' = [chains EXCEPT ![c] =
                      IF chains[c].stage = "notOk"
                      THEN [stage |-> "catch",
                            message |-> "Network response was not ok"]
                      ELSE [stage |-> "blob", message |-> ""]]
    /\ UNCHANGED <<combineFiles, combineDisabled, combineLabel, combineAlert,
                   downloadName>>
    /\ UNCHANGED <<mergeVars, editVars>>

\* The promise of response.blob() settles: the body was read, or reading
\* it failed.
BlobSettles(c) ==
    /\ chains[c].stage = "blob"
    /\ \E read \in BOOLEAN :
          chains' = [chains EXCEPT ![c] =
                        IF read
                        THEN [stage |-> "download", message |-> ""]
                        ELSE [stage |-> "catch", message |-> "Failed to fetch"]]
    /\ UNCHANGED <<combineFiles, combineDisabled, combineLabel, combineAlert,
                   downloadName>>
    /\ UNCHANGED <<mergeVars, editVars>>

\* .then(blob => ...): the blob is downloaded as combined.csv.
ThenBlob(c) ==
    /\ chains[c].stage = "download"
    /\ downloadName' = "combined.csv"
    /\ chains' = [chains EXCEPT ![c] = [stage |-> "finally", message |-> ""]]
    /\ UNCHANGED <<combineFiles, combineDisabled, combineLabel, combineAlert>>
    /\ UNCHANGED <<mergeVars, editVars>>

\* .catch(err => alert('Error combining files: ' + err.message))
Catch(c) ==
    /\ chains[c].stage = "catch"
    /\ combineAlert' = chains[c].message
    /\ chains' = [chains EXCEPT ![c] = [stage |-> "finally", message |-> ""]]
    /\ UNCHANGED <<combineFiles, combineDisabled, combineLabel, downloadName>>
    /\ UNCHANGED <<mergeVars, editVars>>

\* .finally(() => ...): the button is enabled again under its label and
\* the chain is done.
Finally(c) ==
    /\ chains[c].stage = "finally"
    /\ combineDisabled' = FALSE
    /\ combineLabel' = "Combine and Download"
    /\ chains' = RemoveAt(chains, c)
    /\ UNCHANGED <<combineFiles, combineAlert, downloadName>>
    /\ UNCHANGED <<mergeVars, editVars>>

CombineNext ==
    \/ ChooseFiles
    \/ Click
    \/ \E c \in 1..Len(chains) : FetchSettles(c)
    \/ \E c \in 1..Len(chains) : ThenResponse(c)
    \/ \E c \in 1..Len(chains) : BlobSettles(c)
    \/ \E c \in 1..Len(chains) : ThenBlob(c)
    \/ \E c \in 1..Len(chains) : Catch(c)
    \/ \E c \in 1..Len(chains) : Finally(c)

\* A reaction of a settled promise is a job the event loop runs; when the
\* network answers is up to the network.
Reactions ==
    /\ WF_vars(\E c \in 1..Len(chains) : ThenResponse(c))
    /\ WF_vars(\E c \in 1..Len(chains) : ThenBlob(c))
    /\ WF_vars(\E c \in 1..Len(chains) : Catch(c))
    /\ WF_vars(\E c \in 1..Len(chains) : Finally(c))

\* ---------------------------------------------------------- specifications
MergeSpec == Init /\ [][MergeNext]_vars

EditSpec == Init /\ [][EditNext]_vars

SessionSpec == Init /\ [][SessionNext]_vars

CombineSpec == Init /\ [][CombineNext]_vars

CombineFairSpec == CombineSpec /\ Reactions

\* ------------------------------------------------------- merge properties
\* The rows of the parsed input files, files in input order, rows in
\* intra-file order.
RECURSIVE InputRows(_)
InputRows(files) ==
    IF files = <<>> THEN <<>>
    ELSE InputRows(SubSeq(files, 1, Len(files) - 1))
         \o PapaParse(files[Len(files)]).data

\* Every cell of the row is empty or made of white space only.
AllCellsBlank(row) ==
    \A i \in 1..Len(row) : \A k \in 1..Len(row[i][2]) : row[i][2][k] = " "

\* The set of (column, value) pairs of a row record.
PairSet(row) == {row[i] : i \in 1..Len(row)}

\* The rows of a sequence at the positions of a set, in order.
RECURSIVE Pick(_, _, _)
Pick(rows, n, keep) ==
    IF n = 0 THEN <<>>
    ELSE Pick(rows, n - 1, keep) \o (IF n \in keep THEN <<rows[n]>> ELSE <<>>)

FirstOccurrences(rows) ==
    Pick(rows, Len(rows),
         {i \in 1..Len(rows) :
             /\ ~AllCellsBlank(rows[i])
             /\ \A j \in 1..(i - 1) : rows[j] # rows[i]})

Answered == event # NoEvent

Merged == Answered /\ response.statusCode = 200

\* The request reached the file check: a POST whose form was parsed.
Uploaded == Answered /\ event.httpMethod = "POST" /\ ~event.formErr

\* C1: the merge result is exactly the subsequence of the concatenation
\* (files in input order, rows in file order) made of the non-blank rows
\* that did not appear earlier in the concatenation: first occurrence wins
\* and the order is kept.
C1_OrderStableFirstWins ==
    Merged => response.rows = FirstOccurrences(InputRows(event.files))

\* A = [r1, r2], B = [r2, r3] merged to [r1, r2, r3].
C1_Witness ==
    /\ Merged
    /\ Len(event.files) = 2
    /\ LET A == PapaParse(event.files[1]).data
           B == PapaParse(event.files[2]).data
       IN /\ Len(A) = 2 /\ Len(B) = 2
          /\ A[2] = B[1]
          /\ Cardinality({A[1], A[2], B[2]}) = 3
          /\ response.rows = <<A[1], A[2], B[2]>>

\* C2: two records are duplicates iff their sets of (column, value) pairs
\* are identical: the result never holds two rows with the same set of
\* pairs, and every non-blank input row has a row with its set of pairs in
\* the result.
C2_DuplicatesIffSamePairs ==
    Merged =>
        LET in == InputRows(event.files)
            out == response.rows
        IN /\ \A i, j \in 1..Len(out) :
                 i # j => PairSet(out[i]) # PairSet(out[j])
           /\ \A i \in 1..Len(in) :
                 ~AllCellsBlank(in[i]) =>
                     \E j \in 1..Len(out) : PairSet(out[j]) = PairSet(in[i])

\* C3: no row of the merge result has every cell blank, and every input row
\* with a non-blank cell passes the blank-row filter (it, or an identical
\* earlier row, is in the result).
C3_BlankRowsRemoved ==
    Merged =>
        LET in == InputRows(event.files)
            out == response.rows
        IN /\ \A j \in 1..Len(out) : ~AllCellsBlank(out[j])
           /\ \A i \in 1..Len(in) :
                 ~AllCellsBlank(in[i]) => \E j \in 1..Len(out) : out[j] = in[i]

\* A file whose only row is a blank row with a white-space cell, merged with
\* a file that has content.
C3_Witness ==
    /\ Merged
    /\ \E f \in 1..Len(event.files) :
          LET d == PapaParse(event.files[f]).data
          IN /\ Len(d) = 1
             /\ AllCellsBlank(d[1])
             /\ \E i \in 1..Len(d[1]) : d[1][i][2] # <<>>

C5_AllRowsEmptyFails ==
    (/\ Uploaded
     /\ Len(event.files) >= 1
     /\ ~ReadThrows(event.files)
     /\ \A i \in 1..Len(InputRows(event.files)) :
           AllCellsBlank(InputRows(event.files)[i]))
    => (/\ response.statusCode = 500
        /\ response.body # "text/csv"
        /\ response.rows = <<>>)

\* Two readable files holding blank rows only.
C5_Witness ==
    /\ Uploaded
    /\ Len(event.files) = 2
    /\ ~ReadThrows(event.files)
    /\ Len(InputRows(event.files)) >= 2
    /\ \A i \in 1..Len(InputRows(event.files)) :
          AllCellsBlank(InputRows(event.files)[i])
    /\ response.statusCode = 500

\* The parse of the file failed: it cannot be read, or it is malformed
\* (the parser reports errors).
ParseFailed(file) == ~file.readable \/ PapaParse(file).errors # {}

\* C6: if the parse of any input file fails, the merge is aborted with an
\* error: there is no success response.
C6_ParseFailureAborts ==
    (Uploaded /\ \E f \in 1..Len(event.files) : ParseFailed(event.files[f]))
    => response.statusCode # 200

\* -------------------------------------------------- front-end properties
\* C7: the Row Store holds, at every (rowIndex, column), the value of the
\* last input event written to that slot, or the loaded value if the slot
\* was never written; so a write to one slot changes no other slot.
C7_WriteThroughReadBack == csvData = lastWritten

\* Two slots in different rows and columns each written with a value of its
\* own, the other two slots still holding what was loaded.
C7_Witness ==
    /\ Len(csvData) = 2
    /\ Keys(csvData[1]) = <<"a", "b">> /\ Keys(csvData[2]) = <<"a", "b">>
    /\ GetCell(csvData[1], "a") = <<>>
    /\ GetCell(csvData[1], "b") = <<"x">>
    /\ GetCell(csvData[2], "a") = <<"x">>
    /\ GetCell(csvData[2], "b") = <<" ">>
    /\ table[1][1].input /\ table[1][1].text = <<>>
    /\ table[2][2].input /\ table[2][2].text = <<" ">>

\* C8: right after a column has been enabled and then disabled with no
\* input event in between, every cell of the Row Store holds the value it
\* held before the enable.
C8_EnableDisableKeepsStore == before # <<>> => csvData = before[1]

\* Column b enabled and disabled on a table of two rows while column a,
\* edited earlier, is still being edited.
C8_Witness ==
    /\ before # <<>>
    /\ Len(csvData) = 2
    /\ DOMAIN checkbox = {"a", "b"}
    /\ checkbox["a"] /\ ~checkbox["b"]
    /\ GetCell(csvData[1], "a") = <<" ">>

\* The step toggles the checkbox of column a.
ToggleStep(a) ==
    /\ pending' = pending
    /\ a \in DOMAIN checkbox /\ a \in DOMAIN checkbox'
    /\ checkbox'[a] # checkbox[a]

\* C9: toggling column a leaves the edit state and the displayed value of
\* every cell of every other column unchanged.
C9_ToggleLeavesOtherColumns ==
    [][\A a \in Columns :
          ToggleStep(a) =>
              \A b \in DOMAIN checkbox \ {a} :
                 /\ checkbox'[b] = checkbox[b]
                 /\ Len(table') = Len(table)
                 /\ \A i \in 1..Len(table) : \A k \in 1..Len(table[i]) :
                       table[i][k].column = b => table'[i][k] = table[i][k]]_vars

\* Both columns are being edited (so one was toggled while the other was
\* mid-edit), column b holding a typed value.
C9_Witness ==
    /\ DOMAIN checkbox = {"a", "b"}
    /\ checkbox["a"] /\ checkbox["b"]
    /\ Len(table) = 2
    /\ table[1][2].column = "b" /\ table[1][2].input /\ table[1][2].text = <<>>
    /\ table[1][1].input /\ table[1][1].text = <<"x">>

\* C10: when the parse of a selected file fails (the file cannot be read or
\* is malformed), an error message is shown and the Row Store, the table
\* and the column edit states stay as they were.
C10_ParseFailureLeavesState ==
    [][\A i \in 1..Len(pending) :
          (ParseFailed(pending[i]) /\ pending' = RemoveAt(pending, i)) =>
              /\ alert' # ""
              /\ csvData' = csvData
              /\ table' = table
              /\ checkbox' = checkbox]_vars

\* The step handles the completed parse of the i-th pending file.
LoadStep(i) ==
    /\ i \in 1..Len(pending)
    /\ pending[i].readable
    /\ pending' = RemoveAt(pending, i)

\* C11: loading a file whose parse has no rows fails with an error and is
\* not a load: the Row Store keeps the rows it held.
C11_EmptyLoadRejected ==
    [][\A i \in 1..Len(pending) :
          (LoadStep(i) /\ PapaParse(pending[i]).data = <<>>) =>
              /\ alert' # ""
              /\ csvData' = csvData]_vars

\* C12: every cell of the table shows the value the Row Store holds at the
\* cell's (rowIndex, column), as text while its column is not edited and
\* as the value of its input while it is; the table has a row per row of
\* the store and a cell is an input exactly when its column's checkbox is
\* checked.
C12_ViewShowsStore ==
    /\ Len(table) = Len(csvData)
    /\ \A i \in 1..Len(table) : \A k \in 1..Len(table[i]) :
          LET cell == table[i][k]
          IN /\ cell.rowIndex + 1 \in 1..Len(csvData)
             /\ cell.text = GetCell(csvData[cell.rowIndex + 1], cell.column)
             /\ cell.input = (cell.column \in DOMAIN checkbox
                                 /\ checkbox[cell.column])

\* Column a was edited to the empty string in row 1 and then disabled, so
\* its cell shows the typed value as text; column b has been enabled since
\* and its inputs hold the loaded value.
C12_Witness ==
    /\ Len(csvData) = 2
    /\ DOMAIN checkbox = {"a", "b"}
    /\ ~checkbox["a"] /\ checkbox["b"]
    /\ ~table[1][1].input /\ table[1][1].column = "a" /\ table[1][1].text = <<>>
    /\ table[1][2].input /\ table[1][2].text = <<"x">>

\* C13: in a step that is not a load, a cell of column c of the Row Store
\* changes only if c is being edited and the step is an input event on the
\* input of that cell; so while c is displayed as text no such step changes
\* a cell of c.
C13_MutationOnlyWhileEditing ==
    [][(\A j \in 1..Len(pending) : ~LoadStep(j)) =>
          /\ Len(csvData') = Len(csvData)
          /\ \A i \in 1..Len(csvData) : \A c \in Columns :
                GetCell(csvData'[i], c) # GetCell(csvData[i], c) =>
                    /\ c \in DOMAIN checkbox /\ checkbox[c]
                    /\ checkbox' = checkbox
                    /\ \E k \in 1..Len(table[i]) :
                          /\ table[i][k].column = c
                          /\ table[i][k].input
                          /\ table'[i][k].text # table[i][k].text
                          /\ table'[i][k].text = GetCell(csvData'[i], c)]_vars

\* Column b is being edited and holds a typed value in row 2 while column a
\* is displayed as text with the loaded values.
C13_Witness ==
    /\ Len(csvData) = 2
    /\ DOMAIN checkbox = {"a", "b"}
    /\ ~checkbox["a"] /\ checkbox["b"]
    /\ GetCell(csvData[2], "b") = <<" ">>
    /\ GetCell(csvData[1], "a") = <<"x">> /\ GetCell(csvData[2], "a") = <<"x">>
    /\ lastWritten = csvData

\* C14: a toggle or an input event leaves the number of rows of the Row
\* Store and the column names of every row, in their order, unchanged, and
\* every input of the table writes to a rowIndex within the store and to a
\* column that row has.
C14_StructureStable ==
    [][(\A j \in 1..Len(pending) : ~LoadStep(j)) =>
          /\ Len(csvData') = Len(csvData)
          /\ \A i \in 1..Len(csvData) : Keys(csvData'[i]) = Keys(csvData[i])
          /\ \A i \in 1..Len(table') : \A k \in 1..Len(table'[i]) :
                table'[i][k].input =>
                    /\ table'[i][k].rowIndex \in 0..(Len(csvData') - 1)
                    /\ HasKey(csvData'[table'[i][k].rowIndex + 1],
                              table'[i][k].column)]_vars

\* Two rows of two columns after input events on both columns of row 2 and
\* a toggle back of column a.
C14_Witness ==
    /\ Len(csvData) = 2
    /\ Keys(csvData[1]) = <<"a", "b">> /\ Keys(csvData[2]) = <<"a", "b">>
    /\ DOMAIN checkbox = {"a", "b"}
    /\ ~checkbox["a"] /\ checkbox["b"]
    /\ GetCell(csvData[2], "a") = <<" ">>
    /\ GetCell(csvData[2], "b") = <<>>
    /\ table[2][2].input

\* C18: right after the parse of a file completes, the Row Store equals the
\* rows parsed from that file, every column is displayed as text (also the
\* columns that were being edited before), and the table holds no input,
\* so no input of the previous table can write into the new store.
C18_LoadReplacesSession ==
    [][\A i \in 1..Len(pending) :
          LoadStep(i) =>
              /\ \E j \in 1..Len(pending) :
                    /\ LoadStep(j)
                    /\ csvData' = PapaParse(pending[j]).data
              /\ \A c \in DOMAIN checkbox' : ~checkbox'[c]
              /\ Len(table') = Len(csvData')
              /\ \A r \in 1..Len(table') : \A k \in 1..Len(table'[r]) :
                    ~table'[r][k].input]_vars

\* A file of two rows has just been loaded over a table that had a column
\* being edited.
C18_Witness ==
    /\ replaced
    /\ Len(csvData) = 2
    /\ DOMAIN checkbox = {"a", "b"}
    /\ ~checkbox["a"] /\ ~checkbox["b"]

\* C19: when the last pending parse completes, the Row Store holds the
\* rows of the file selected most recently, whatever the order in which
\* the pending parses completed.
C19_LatestSelectionWins ==
    [][\A i \in 1..Len(pending) :
          (LoadStep(i) /\ pending' = <<>>
             /\ latest # <<>> /\ latest[1].readable) =>
                csvData' = PapaParse(latest[1]).data]_vars

\* A row with its absent and blank cells (empty or white space only) taken
\* as the empty string: the pairs of the row that have a non-blank value.
IsFilled(pair) == Trim(pair[2]) # <<>>

Normalized(row) == SelectSeq(row, IsFilled)

\* C15: blank and absent cell values count as the empty string when rows
\* are compared for duplicates, so the merge result has no two rows that
\* are equal once their blank cells are normalized.
C15_BlankNormalizedBeforeDedup ==
    Merged =>
        \A i, j \in 1..Len(response.rows) :
            i # j => Normalized(response.rows[i]) # Normalized(response.rows[j])

\* ----------------------------------------------------- session properties
\* What the function answers to a request, from the request alone.
Outcome(ev) ==
    IF ev.httpMethod # "POST" THEN ErrorResponse(405, "Method Not Allowed")
    ELSE IF ev.formErr THEN ErrorResponse(500, "Error parsing form data")
    ELSE IF ev.files = <<>> THEN ErrorResponse(400, "No files uploaded")
    ELSE IF \E i \in 1..Len(ev.files) : ~ev.files[i].readable
    THEN ErrorResponse(500, "Server error processing CSV files")
    ELSE LET rows == FirstOccurrences(InputRows(ev.files))
         IN IF rows = <<>>
            THEN ErrorResponse(500, "Server error processing CSV files")
            ELSE [statusCode |-> 200, body |-> "text/csv", rows |-> rows]

\* C16: the response to an invocation is the one its own request
\* determines, whatever invocations the process served before, failed ones
\* included: no row and no dedup key of an earlier invocation shows in or
\* suppresses a row of a later one.
C16_NoResidualState == Answered => response = Outcome(event)

\* A merge answered with a row whose key an earlier invocation of the same
\* process had in its seen Set, the invocation in between having failed.
C16_Witness ==
    /\ Merged
    /\ seenBefore
    /\ prevStatus \in {400, 500}
    /\ \E i \in 1..Len(response.rows) :
          \E k \in 1..Len(event.files[1].lines) :
             response.rows[i] = PapaParse(event.files[1]).data[k]

\* ----------------------------------------------------- combine properties
\* The outcome of the request of the first chain is known: the fetch was
\* rejected, the response is not OK, or the body of an OK response has
\* been read or has failed to be read.
Settled == chains # <<>> /\ chains[1].stage \notin {"fetch", "ok", "blob"}

Reenabled == ~combineDisabled /\ combineLabel = "Combine and Download"

\* C17: while a merge request is sent and not yet handled the combine
\* button is disabled under the label 'Combining...', so at most one
\* request is in flight; and once the request has settled the button is
\* eventually enabled again under its original label.
C17_DoubleSubmitGuard ==
    /\ [](/\ Len(chains) <= 1
          /\ chains # <<>> =>
                (combineDisabled /\ combineLabel = "Combining..."))
    /\ (Settled ~> Reenabled)

\* A request has been answered, its file downloaded, and the button is
\* enabled again.
C17_Witness ==
    /\ chains = <<>>
    /\ Reenabled
    /\ combineFiles >= 2
    /\ downloadName = "combined.csv"

====
